---- MODULE Spec2Model ----
(***************************************************************************)
(* Stock ledger of the spring-stock app (src/app.py): the springs table,   *)
(* the transactions log, and the calls of receive_stock / use_stock that   *)
(* mutate them.  Every database access of the source opens its own         *)
(* connection and commits on its own, so one call of receive_stock or      *)
(* use_stock is three separately committed steps: get_stock_row,           *)
(* set_stock, add_transaction.  Calls of different sessions interleave     *)
(* between those steps.                                                    *)
(*                                                                         *)
(* Python strings are modelled as sequences of one-character strings,      *)
(* so that strip / upper / regular expressions are computed, not assumed.  *)
(***************************************************************************)
EXTENDS Integers, Sequences, FiniteSets, TLC

\* ------------------------------------------------------------------ bounds
\* Number of receive_stock / use_stock calls made in one behaviour.
NCalls == 2
\* Largest quantity a form submits (the forms enforce min_value=1).
MaxQty == 2
\* Quantity of the receipt already booked, when the app starts, for a spring
\* that is in stock.
InitQty == 1
\* Longest order number typed into normalize_order_no.
MaxLen == 3
\* Largest number of fields of a structured scanner result.
MaxFields == 2
\* Largest number of label copies asked of make_label_pdf.
MaxCopies == 2

Calls == 1..NCalls
Qtys == 1..MaxQty
\* Spring numbers present on the labels that are scanned / typed.
SpringSeq == << <<"A">>, <<"B">> >>
SpringNos == {SpringSeq[i] : i \in 1..Len(SpringSeq)}
\* SQL NULL / Python None in a nullable text column.
NULL == <<"NULL">>

VARIABLES
    springs,        \* table springs: spring_no -> qty_on_hand (rows that exist)
    transactions,   \* table transactions, in id order
    call,           \* the calls of receive_stock / use_stock: position and locals
    tx_by,          \* history: the call that inserted each transactions row
    write_by,       \* history: the calls in the order their set_stock committed
    session,        \* st.session_state of the operator's session
    qr_raw,         \* what qrcode_scanner(key="scan") returns on a script run
    ui,             \* where the session's script is, and the call it is in
    scan_runs,      \* history: script runs that handled the scanner's result
                    \* since the latest scan event (2: two or more)
    scan_beeps,     \* history: play_beep() calls since the latest scan event
    scan_uses,      \* history: consumptions committed since the latest scan event
    submitted,      \* history: the form submission page 1 just handled and
                    \* the errors it displayed, until the session's next event
    mails,          \* history: send_email calls made for each use_stock call
    page2,          \* page 2 of the session: the submit handler's locals, what
                    \* it displayed, session_state["last_receive_pdf"]
    fn              \* a call of a pure function: its argument and its result

ledger_vars == <<springs, transactions, call, tx_by, write_by>>
page1_vars == <<session, qr_raw, ui, scan_runs, scan_beeps, scan_uses,
                submitted, mails>>
ui_vars == <<page1_vars, page2, fn>>
vars == <<springs, transactions, call, tx_by, write_by,
          session, qr_raw, ui, scan_runs, scan_beeps, scan_uses,
          submitted, mails, page2, fn>>

\* ------------------------------------------------------------ the database
\* CHECK (qty_on_hand >= 0) of table springs.
springs_check(qty_on_hand) == qty_on_hand >= 0

\* CHECK (qty > 0) of table transactions.
transactions_check(qty) == qty > 0

\* SELECT spring_no, qty_on_hand FROM springs WHERE spring_no=%s; fetchone().
\* The empty tuple stands for None (no row).
get_stock_row(spring_no) ==
    IF spring_no \in DOMAIN springs
    THEN <<spring_no, springs[spring_no]>>
    ELSE <<>>

\* INSERT ... ON CONFLICT (spring_no) DO UPDATE SET qty_on_hand=EXCLUDED.qty_on_hand
upsert(table, spring_no, qty_on_hand) ==
    [k \in DOMAIN table \cup {spring_no} |->
        IF k = spring_no THEN qty_on_hand ELSE table[k]]

\* The row INSERTed by add_transaction; id is the SERIAL column.
tx_row(tx_type, spring_no, qty, initials, order_no) ==
    [id |-> Len(transactions) + 1, type |-> tx_type, spring_no |-> spring_no,
     qty |-> qty, initials |-> initials, order_no |-> order_no]

\* ------------------------------------------------------------------ calls
IdleCall ==
    [pc |-> "idle", tx_type |-> "", spring_no |-> <<>>, qty |-> 0,
     initials |-> NULL, order_no |-> NULL, current |-> 0, new_qty |-> 0,
     err |-> "", ovl |-> FALSE, pre |-> 0]

\* A call between its first database access and its return / raise.
InFlight(r) == r.pc \in {"set_stock", "add_transaction"}

\* The call raises: it ends with the exception, its locals as they are.
raise(c, exc) == [call EXCEPT ![c].pc = "raised", ![c].err = exc]

\* A session calls receive_stock / use_stock with validated arguments; r is
\* the call's record after its first statements.  Calls are numbered in the
\* order they are made.  ovl records whether the call overlapped another
\* call on the same spring_no, pre the balance its set_stock replaced.
invoke(c, r) ==
    /\ call[c].pc = "idle"
    /\ \A d \in Calls : d < c => call[d].pc # "idle"
    /\ call' = [d \in Calls |->
                  IF d = c
                  THEN [r EXCEPT !.ovl = \E e \in Calls :
                                            /\ InFlight(call[e])
                                            /\ call[e].spring_no = r.spring_no]
                  ELSE IF /\ InFlight(r)
                          /\ InFlight(call[d])
                          /\ call[d].spring_no = r.spring_no
                       THEN [call[d] EXCEPT !.ovl = TRUE]
                       ELSE call[d]]

\* current = row[1] if row else 0
current_of(row) == IF row # <<>> THEN row[2] ELSE 0

\* A faulty receipt: the stock is set to the received quantity.
receive_new_qty_overwrites(current, qty) == qty

\* new_qty = current + qty
receive_new_qty(current, qty) == current + qty

\* A faulty stock check: only an empty stock is refused.
insufficient_only_empty(current, qty) == current <= 0

\* if current < qty: raise ValueError
insufficient(current, qty) == current < qty

\* new_qty = current - qty
use_new_qty(current, qty) == current - qty

\* receive_stock, up to set_stock: row = get_stock_row(...); current; new_qty
receive_stock_read(spring_no, qty) ==
    LET current == current_of(get_stock_row(spring_no))
    IN  [IdleCall EXCEPT
           !.tx_type = "RECEIVE", !.spring_no = spring_no, !.qty = qty,
           !.current = current,
           !.new_qty = receive_new_qty(current, qty),
           !.pc = "set_stock"]

\* use_stock, up to set_stock: row; current; the stock check; new_qty
use_stock_read(spring_no, qty, initials, order_no) ==
    LET current == current_of(get_stock_row(spring_no))
        r == [IdleCall EXCEPT
                !.tx_type = "USE", !.spring_no = spring_no, !.qty = qty,
                !.initials = initials, !.order_no = order_no,
                !.current = current]
    IN  IF insufficient(current, qty)
        THEN [r EXCEPT !.pc = "raised", !.err = "ValueError"]
        ELSE [r EXCEPT !.new_qty = use_new_qty(current, qty),
                       !.pc = "set_stock"]

\* get_conn() of get_stock_row raises: the call ends before it read anything.
first_conn_fails(tx_type, spring_no, qty, initials, order_no) ==
    [IdleCall EXCEPT
       !.tx_type = tx_type, !.spring_no = spring_no, !.qty = qty,
       !.initials = initials, !.order_no = order_no,
       !.pc = "raised", !.err = "OperationalError"]

\* A faulty set_stock: a relative UPDATE on a table without the CHECK.
set_stock_relative(c, spring_no, qty_on_hand) ==
    /\ springs' = upsert(springs, spring_no,
                         current_of(get_stock_row(spring_no))
                           + (qty_on_hand - call[c].current))
    /\ write_by' = Append(write_by, c)
    /\ call' = [call EXCEPT ![c].pc = "add_transaction",
                            ![c].pre = current_of(get_stock_row(spring_no))]

\* set_stock(spring_no, qty_on_hand): one upsert, committed on its own; a
\* value the CHECK refuses raises psycopg2's IntegrityError and changes nothing.
set_stock(c, spring_no, qty_on_hand) ==
    IF springs_check(qty_on_hand)
    THEN /\ springs' = upsert(springs, spring_no, qty_on_hand)
         /\ write_by' = Append(write_by, c)
         /\ call' = [call EXCEPT ![c].pc = "add_transaction",
                                 ![c].pre = current_of(get_stock_row(spring_no))]
    ELSE /\ call' = raise(c, "IntegrityError")
         /\ UNCHANGED <<springs, write_by>>

\* add_transaction(...): one INSERT, committed on its own.
add_transaction(c, tx_type, spring_no, qty, initials, order_no) ==
    IF transactions_check(qty)
    THEN /\ transactions' = Append(transactions,
                                   tx_row(tx_type, spring_no, qty, initials, order_no))
         /\ tx_by' = Append(tx_by, c)
         /\ call' = [call EXCEPT ![c].pc = "returned"]
    ELSE /\ call' = raise(c, "IntegrityError")
         /\ UNCHANGED <<transactions, tx_by>>

\* receive_stock: set_stock(spring_no, new_qty)
receive_stock_set(c) ==
    /\ call[c].pc = "set_stock"
    /\ call[c].tx_type = "RECEIVE"
    /\ set_stock(c, call[c].spring_no, call[c].new_qty)
    /\ UNCHANGED <<transactions, tx_by, ui_vars>>

\* use_stock: set_stock(spring_no, new_qty)
use_stock_set(c) ==
    /\ call[c].pc = "set_stock"
    /\ call[c].tx_type = "USE"
    /\ set_stock(c, call[c].spring_no, call[c].new_qty)
    /\ UNCHANGED <<transactions, tx_by, ui_vars>>

\* receive_stock: add_transaction("RECEIVE", spring_no, qty, note=note); return
receive_stock_add(c) ==
    /\ call[c].pc = "add_transaction"
    /\ call[c].tx_type = "RECEIVE"
    /\ add_transaction(c, "RECEIVE", call[c].spring_no, call[c].qty, NULL, NULL)
    /\ UNCHANGED <<springs, write_by, ui_vars>>

\* use_stock: add_transaction("USE", spring_no, qty, initials=, order_no=); return
use_stock_add(c) ==
    /\ call[c].pc = "add_transaction"
    /\ call[c].tx_type = "USE"
    /\ add_transaction(c, "USE", call[c].spring_no, call[c].qty,
                       call[c].initials, call[c].order_no)
    /\ UNCHANGED <<springs, write_by, ui_vars>>

\* get_conn(): psycopg2.connect raises OperationalError when the store is
\* unreachable, which can happen at any database access of a call; neither
\* receive_stock nor use_stock catches it.
get_conn_fails(c) ==
    /\ InFlight(call[c])
    /\ call' = raise(c, "OperationalError")
    /\ UNCHANGED <<springs, transactions, tx_by, write_by, ui_vars>>

\* ------------------------------------------------------------- normalizer
LowerSeq == <<"a", "b", "c", "d", "e", "f", "g", "h", "i", "j", "k", "l", "m",
              "n", "o", "p", "q", "r", "s", "t", "u", "v", "w", "x", "y", "z">>
UpperSeq == <<"A", "B", "C", "D", "E", "F", "G", "H", "I", "J", "K", "L", "M",
              "N", "O", "P", "Q", "R", "S", "T", "U", "V", "W", "X", "Y", "Z">>
Lower == {LowerSeq[i] : i \in 1..Len(LowerSeq)}
Upper == {UpperSeq[i] : i \in 1..Len(UpperSeq)}
Digit == {"0", "1", "2", "3", "4", "5", "6", "7", "8", "9"}
\* The characters str.strip() removes (those of the inputs modelled).
Whitespace == {" ", "\t", "\n", "\r", "\f"}

\* ch.isalpha()
isalpha(ch) == ch \in Lower \cup Upper

\* str.upper(), one character
upper_ch(ch) ==
    IF ch \in Lower
    THEN UpperSeq[CHOOSE i \in 1..Len(LowerSeq) : LowerSeq[i] = ch]
    ELSE ch

\* str.upper()
upper(s) == [i \in 1..Len(s) |-> upper_ch(s[i])]

RECURSIVE lstrip(_)
lstrip(s) ==
    IF s # <<>> /\ Head(s) \in Whitespace THEN lstrip(Tail(s)) ELSE s

RECURSIVE rstrip(_)
rstrip(s) ==
    IF s # <<>> /\ s[Len(s)] \in Whitespace
    THEN rstrip(SubSeq(s, 1, Len(s) - 1))
    ELSE s

\* str.strip()
strip(s) == rstrip(lstrip(s))

\* s.replace(" ", "")
not_space(ch) == ch # " "

\* letters = "".join(ch for ch in (s or "") if ch.isalpha()).upper(); letters[:2]
normalize_initials(s) ==
    LET letters == upper(SelectSeq(s, isalpha))
    IN  SubSeq(letters, 1, IF Len(letters) < 2 THEN Len(letters) ELSE 2)

\* (s or ""): None and "" give ""
or_empty(s) == IF s = NULL THEN <<>> ELSE s

\* (s or "").replace(" ", "").upper().strip()
normalize_order_no(s) == strip(upper(SelectSeq(or_empty(s), not_space)))

\* The scanner's result: None, a str, or a dict given as the sequence of its
\* items [k, v] in insertion order, keys and values being strings.
NoScan == [kind |-> "None", val |-> <<>>]
ScanStr(s) == [kind |-> "str", val |-> s]
ScanDict(items) == [kind |-> "dict", val |-> items]

\* The keys tried, in order: ("text", "data", "raw", "result", "value")
ScanKeySeq ==
    << <<"t", "e", "x", "t">>, <<"d", "a", "t", "a">>, <<"r", "a", "w">>,
       <<"r", "e", "s", "u", "l", "t">>, <<"v", "a", "l", "u", "e">> >>

\* qr_result.get(k): the value, or None
dict_get(items, k) ==
    IF \E i \in 1..Len(items) : items[i].k = k
    THEN items[CHOOSE i \in 1..Len(items) : items[i].k = k].v
    ELSE NULL

\* if v: neither None nor the empty string
truthy(v) == v # NULL /\ v # <<>>

\* repr() of a str without quotes or escapes in it
repr(s) == <<"'">> \o s \o <<"'">>

\* The items of str(dict): 'k': 'v', separated by ", "
RECURSIVE str_items(_, _)
str_items(items, n) ==
    IF n = 0 THEN <<>>
    ELSE str_items(items, n - 1)
         \o (IF n > 1 THEN <<",", " ">> ELSE <<>>)
         \o repr(items[n].k) \o <<":", " ">> \o repr(items[n].v)

\* str(qr_result) of a dict
str_dict(items) == <<"{">> \o str_items(items, Len(items)) \o <<"}">>

\* normalize_scan_value(qr_result); str(v) of a str v is v.
normalize_scan_value(qr_result) ==
    IF qr_result.kind = "None" THEN <<>>
    ELSE IF qr_result.kind = "str" THEN strip(qr_result.val)
    ELSE LET found == {i \in 1..Len(ScanKeySeq) :
                          truthy(dict_get(qr_result.val, ScanKeySeq[i]))}
         IN  IF found # {}
             THEN strip(dict_get(qr_result.val,
                                 ScanKeySeq[CHOOSE i \in found :
                                               \A j \in found : i <= j]))
             ELSE strip(str_dict(qr_result.val))

\* A pattern anchored with $ matches at the end of the string and also just
\* before one trailing "\n": the texts the body of the pattern may span.
dollar(s) ==
    IF s # <<>> /\ s[Len(s)] = "\n"
    THEN {s, SubSeq(s, 1, Len(s) - 1)}
    ELSE {s}

\* [A-Z]{2}
two_upper(s) == Len(s) = 2 /\ s[1] \in Upper /\ s[2] \in Upper

\* \d{3}-\d{2}[A-Z]\d+
order_shape(s) ==
    /\ Len(s) >= 8
    /\ \A i \in {1, 2, 3, 5, 6} : s[i] \in Digit
    /\ s[4] = "-"
    /\ s[7] \in Upper
    /\ \A i \in 8..Len(s) : s[i] \in Digit

\* A faulty pattern: any run of digits, capitals and dashes.
ORDER_RE_unchecked(s) ==
    s # <<>> /\ \A i \in 1..Len(s) : s[i] \in Digit \cup Upper \cup {"-"}

\* INITIALS_RE.match(s)
INITIALS_RE(s) == \E t \in dollar(s) : two_upper(t)

\* ORDER_RE.match(s)
ORDER_RE(s) == \E t \in dollar(s) : order_shape(t)

\* ------------------------------------------------- page 1: the scan guard
\* What the scanner component can report: nothing, a label with surrounding
\* whitespace, another label, only whitespace.
ScanResults ==
    {NoScan, ScanStr(<<" ", "A", "\n">>), ScanStr(<<"B">>), ScanStr(<<" ">>)}

\* What the operator types in the form.
InitialsTyped == {<<"p", ".", "v", ".">>, <<"P">>}
OrdersTyped ==
    {<<" ", "0", "0", "5", "-", "2", "6", "r", "0", "1", " ">>,
     <<"5", "-", "2", "6", "R", "1">>}

\* session_state["last_use_success"] = None
NoSuccess ==
    [set |-> FALSE, spring_no |-> <<>>, order_no |-> <<>>, qty |-> 0,
     before |-> 0, after |-> 0, email_ok |-> FALSE]

\* A faulty scan handling: every non-empty scan result arms and beeps.
scan_handling_ungated(state, qr_text) ==
    IF qr_text # <<>>
    THEN [state |-> [state EXCEPT !.spring_no = qr_text,
                                  !.last_scanned = qr_text],
          beep |-> TRUE]
    ELSE [state |-> state, beep |-> FALSE]

\* if qr_text: if qr_text != last_scanned: spring_no = last_scanned = qr_text;
\* play_beep()
scan_handling(state, qr_text) ==
    IF qr_text # <<>> /\ qr_text # state.last_scanned
    THEN [state |-> [state EXCEPT !.spring_no = qr_text,
                                  !.last_scanned = qr_text],
          beep |-> TRUE]
    ELSE [state |-> state, beep |-> FALSE]

\* qr_raw = qrcode_scanner(key="scan"); qr_text = normalize_scan_value(qr_raw);
\* the scan handling: the session state after it, and whether it beeped.
scanned == scan_handling(session, normalize_scan_value(qr_raw))

\* The script run handled the scanner's result.
scan_handled ==
    /\ session' = scanned.state
    /\ scan_beeps' = scan_beeps + (IF scanned.beep THEN 1 ELSE 0)
    /\ scan_runs' = IF scan_runs < 2 THEN scan_runs + 1 ELSE 2

\* A faulty validation: it stops at the first violated rule.
validation_errors_first_only(spring_clean, initials_clean, order_clean, qty) ==
    IF spring_clean = <<>> THEN <<"veernummer">>
    ELSE IF ~INITIALS_RE(initials_clean) THEN <<"initialen">>
    ELSE IF ~ORDER_RE(order_clean) THEN <<"ordernummer">>
    ELSE IF qty < 1 THEN <<"aantal">>
    ELSE <<>>

\* The errors list of the submit handler.
validation_errors(spring_clean, initials_clean, order_clean, qty) ==
    (IF spring_clean = <<>> THEN <<"veernummer">> ELSE <<>>)
    \o (IF ~INITIALS_RE(initials_clean) THEN <<"initialen">> ELSE <<>>)
    \o (IF ~ORDER_RE(order_clean) THEN <<"ordernummer">> ELSE <<>>)
    \o (IF qty < 1 THEN <<"aantal">> ELSE <<>>)

\* No form submission handled by the latest script run.
NoSubmit ==
    [set |-> FALSE, initials_raw |-> <<>>, order_raw |-> <<>>, qty |-> 0,
     errors |-> <<>>]

\* A faulty handler: a notification that failed is sent again.
send_email_retry(c, ok) ==
    [mails EXCEPT ![c] = @ + (IF ok THEN 1 ELSE 2)]

\* ok, msg = send_email(subj, body): one call, whatever its outcome; ok is
\* False when the SMTP variables are missing or the SMTP exchange raised.
send_email(c, ok) == [mails EXCEPT ![c] = @ + 1]

\* A faulty success handler: last_scanned is not cleared.
after_use_keeps_last_scanned(state, info) ==
    [state EXCEPT !.last_use_success = info, !.spring_no = <<>>]

\* session_state["last_use_success"] = {...}; spring_no = ""; last_scanned = ""
after_use(state, info) ==
    [state EXCEPT !.last_use_success = info,
                  !.spring_no = <<>>,
                  !.last_scanned = <<>>]

\* The call slot the next call of the session takes.
next_call == CHOOSE c \in Calls : call[c].pc = "idle" /\ \A d \in Calls : d < c => call[d].pc # "idle"
calls_left == \E c \in Calls : call[c].pc = "idle"

\* The scanner component reports a new result (a physical scan event); until
\* the first one it reports None.
scan_event ==
    /\ ui.pc = "idle"
    /\ \E r \in ScanResults \ {NoScan} :
          /\ r # qr_raw
          /\ qr_raw' = r
    /\ scan_runs' = 0
    /\ scan_beeps' = 0
    /\ scan_uses' = 0
    /\ submitted' = NoSubmit
    /\ UNCHANGED <<ledger_vars, session, ui, mails, page2, fn>>

\* A script run of page 1 with no button pressed: after st.rerun(), or on a
\* refresh cycle of the scanner component.
page1_refresh ==
    /\ ui.pc \in {"idle", "rerun"}
    /\ scan_handled
    /\ ui' = [ui EXCEPT !.pc = "idle"]
    /\ submitted' = NoSubmit
    /\ UNCHANGED <<ledger_vars, qr_raw, scan_uses, mails, page2, fn>>

\* The operator presses "Nieuwe scan": last_use_success = None; st.rerun()
page1_new_scan ==
    /\ ui.pc = "idle"
    /\ session.last_use_success.set
    /\ session' = [session EXCEPT !.last_use_success = NoSuccess]
    /\ ui' = [ui EXCEPT !.pc = "rerun"]
    /\ submitted' = NoSubmit
    /\ UNCHANGED <<ledger_vars, qr_raw, scan_runs, scan_beeps, scan_uses,
                   mails, page2, fn>>

\* The operator submits the form: the script runs the scan handling, validates
\* and, without errors, calls use_stock.
page1_submit ==
    /\ ui.pc = "idle"
    /\ \E initials_raw \in InitialsTyped, order_raw \in OrdersTyped, qty \in Qtys :
        LET initials_clean == normalize_initials(initials_raw)
            order_clean == normalize_order_no(order_raw)
            spring_clean == strip(scanned.state.spring_no)
            errors == validation_errors(spring_clean, initials_clean,
                                        order_clean, qty)
        IN  /\ scan_handled
            /\ submitted' = [set |-> TRUE, initials_raw |-> initials_raw,
                             order_raw |-> order_raw, qty |-> qty,
                             errors |-> errors]
            /\ IF errors # <<>>
               THEN /\ ui' = [ui EXCEPT !.pc = "idle"]
                    /\ UNCHANGED call
               ELSE /\ calls_left
                    /\ ui' = [pc |-> "use_stock", call |-> next_call]
                    /\ \/ invoke(next_call,
                                 use_stock_read(spring_clean, qty,
                                                initials_clean, order_clean))
                       \/ invoke(next_call,
                                 first_conn_fails("USE", spring_clean, qty,
                                                  initials_clean, order_clean))
    /\ UNCHANGED <<springs, transactions, tx_by, write_by, qr_raw, scan_uses,
                   mails, page2, fn>>

\* use_stock returned: send_email (it may fail), last_use_success, the reset
\* of the guard, st.rerun()
page1_use_returned ==
    /\ ui.pc = "use_stock"
    /\ call[ui.call].pc = "returned"
    /\ \E ok \in BOOLEAN :
          /\ mails' = send_email(ui.call, ok)
          /\ session' = after_use(session,
                          [set |-> TRUE, spring_no |-> call[ui.call].spring_no,
                           order_no |-> call[ui.call].order_no,
                           qty |-> call[ui.call].qty,
                           before |-> call[ui.call].current,
                           after |-> call[ui.call].new_qty,
                           email_ok |-> ok])
    /\ scan_uses' = scan_uses + 1
    /\ ui' = [ui EXCEPT !.pc = "rerun"]
    /\ UNCHANGED <<ledger_vars, qr_raw, scan_runs, scan_beeps, submitted,
                   page2, fn>>

\* use_stock raised: a ValueError is shown with st.error, any other exception
\* ends the script run; the session state is as it was.
page1_use_raised ==
    /\ ui.pc = "use_stock"
    /\ call[ui.call].pc = "raised"
    /\ ui' = [ui EXCEPT !.pc = "idle"]
    /\ UNCHANGED <<ledger_vars, session, qr_raw, scan_runs, scan_beeps, scan_uses,
                   submitted, mails, page2, fn>>

\* ---------------------------------------------- page 2: receipt and labels
\* Page 2 before any submission: last_receive_pdf is not set.
NoReceive ==
    [spring_no |-> <<>>, qty_received |-> 0, label_qty |-> 0,
     error |-> FALSE, label_raised |-> FALSE, pdf_set |-> FALSE, pdf |-> <<>>]

\* A faulty handler: the Veernummer is never found missing.
spring_missing_never(spring_clean) == FALSE

\* if not spring_clean: st.error("Veernummer is verplicht.")
spring_missing(spring_clean) == spring_clean = <<>>

\* What the administrator types as Veernummer.
SpringTyped == {<<" ">>, <<" ", "A">>, <<"B">>}

\* make_label_pdf(spring_no, count): one page per pass of range(count), each
\* with spring_no as text and the QR code made of spring_no; the document is
\* the sequence of its pages.
make_label_pdf(spring_no, count) ==
    [i \in 1..count |-> [text |-> spring_no, qr |-> spring_no]]

\* The administrator submits the receipt form: an empty Veernummer is an
\* error; otherwise label_qty is fixed and receive_stock is called.
page2_submit ==
    /\ ui.pc = "idle"
    /\ \E spring_no \in SpringTyped, qty_received \in Qtys,
          auto_labels \in BOOLEAN, labels_count \in Qtys :
        LET spring_clean == strip(spring_no)
            label_qty == IF auto_labels THEN qty_received ELSE labels_count
        IN  IF spring_missing(spring_clean)
            THEN /\ page2' = [page2 EXCEPT !.spring_no = spring_no,
                                           !.qty_received = qty_received,
                                           !.error = TRUE,
                                           !.label_raised = FALSE]
                 /\ UNCHANGED <<call, ui>>
            ELSE /\ calls_left
                 /\ page2' = [page2 EXCEPT !.spring_no = spring_no,
                                           !.qty_received = qty_received,
                                           !.error = FALSE,
                                           !.label_raised = FALSE,
                                           !.label_qty = label_qty]
                 /\ ui' = [pc |-> "receive_stock", call |-> next_call]
                 /\ \/ invoke(next_call,
                              receive_stock_read(spring_clean, qty_received))
                    \/ invoke(next_call,
                              first_conn_fails("RECEIVE", spring_clean,
                                               qty_received, NULL, NULL))
    /\ submitted' = NoSubmit
    /\ UNCHANGED <<springs, transactions, tx_by, write_by, session, qr_raw,
                   scan_runs, scan_beeps, scan_uses, mails, fn>>

\* receive_stock returned: make_label_pdf, which may raise; the document is
\* kept in session_state["last_receive_pdf"]; st.rerun()
page2_receive_returned ==
    /\ ui.pc = "receive_stock"
    /\ call[ui.call].pc = "returned"
    /\ \/ page2' = [page2 EXCEPT
                       !.pdf_set = TRUE,
                       !.pdf = make_label_pdf(call[ui.call].spring_no,
                                              page2.label_qty),
                       !.label_qty = 0]
       \/ page2' = [page2 EXCEPT !.label_raised = TRUE, !.label_qty = 0]
    /\ ui' = [ui EXCEPT !.pc = "idle"]
    /\ UNCHANGED <<ledger_vars, session, qr_raw, scan_runs, scan_beeps,
                   scan_uses, submitted, mails, fn>>

\* receive_stock raised: nothing catches it, the script run ends.
page2_receive_raised ==
    /\ ui.pc = "receive_stock"
    /\ call[ui.call].pc = "raised"
    /\ page2' = [page2 EXCEPT !.label_qty = 0]
    /\ ui' = [ui EXCEPT !.pc = "idle"]
    /\ UNCHANGED <<ledger_vars, session, qr_raw, scan_runs, scan_beeps,
                   scan_uses, submitted, mails, fn>>

\* No pure function is being called.
NoFn == [op |-> "", arg |-> <<>>, done |-> FALSE, raised |-> FALSE, out |-> <<>>]

\* ------------------------------------- the calls the sessions' forms make
\* The arguments page 2's submit handler calls receive_stock with: what the
\* form holds, stripped, when the Veernummer is not missing.
ReceiveArgs ==
    UNION {IF spring_missing(a.spring_no) THEN {} ELSE {a} :
           a \in [spring_no : {strip(s) : s \in SpringTyped}, qty : Qtys]}

\* The arguments page 1's submit handler calls use_stock with: what the
\* scanner and the form hold, normalized, when there are no validation errors.
UseArgs ==
    UNION {IF validation_errors(a.spring_no, a.initials, a.order_no,
                                a.qty) = <<>>
           THEN {a} ELSE {} :
           a \in [spring_no : {strip(normalize_scan_value(r)) :
                                  r \in ScanResults},
                  initials : {normalize_initials(s) : s \in InitialsTyped},
                  order_no : {normalize_order_no(s) : s \in OrdersTyped},
                  qty : Qtys]}

\* Some session's page 2 submit:
\* receive_stock(spring_clean, int(qty_received), note=...)
InvokeReceive(c) ==
    /\ \E a \in ReceiveArgs :
          \/ invoke(c, receive_stock_read(a.spring_no, a.qty))
          \/ invoke(c, first_conn_fails("RECEIVE", a.spring_no, a.qty,
                                        NULL, NULL))
    /\ UNCHANGED <<springs, transactions, tx_by, write_by, ui_vars>>

\* Some session's page 1 submit:
\* use_stock(spring_clean, int(qty), initials_clean, order_clean)
InvokeUse(c) ==
    /\ \E a \in UseArgs :
          \/ invoke(c, use_stock_read(a.spring_no, a.qty, a.initials,
                                      a.order_no))
          \/ invoke(c, first_conn_fails("USE", a.spring_no, a.qty,
                                        a.initials, a.order_no))
    /\ UNCHANGED <<springs, transactions, tx_by, write_by, ui_vars>>

\* The ledger left by earlier runs of the app: receive_stock(p, stock[p]) was
\* called, one call after the other, for every spring p that is in stock.
RECURSIVE booked(_, _)
booked(stock, n) ==
    IF n = 0 THEN <<>>
    ELSE LET before == booked(stock, n - 1)
             p == SpringSeq[n]
         IN  IF stock[p] = 0 THEN before
             ELSE Append(before,
                         [id |-> Len(before) + 1, type |-> "RECEIVE",
                          spring_no |-> p, qty |-> stock[p],
                          initials |-> NULL, order_no |-> NULL])

\* ensure_tables(): CREATE TABLE IF NOT EXISTS keeps what the database holds.
\* Rows of earlier runs are attributed to call 0.
Started(stock) ==
    /\ springs = [p \in {q \in SpringNos : stock[q] > 0} |-> stock[p]]
    /\ transactions = booked(stock, Len(SpringSeq))
    /\ tx_by = [i \in 1..Len(booked(stock, Len(SpringSeq))) |-> 0]
    /\ call = [c \in Calls |-> IdleCall]
    /\ write_by = <<>>
    /\ session = [spring_no |-> <<>>, last_scanned |-> <<>>,
                  last_use_success |-> NoSuccess]
    /\ qr_raw = NoScan
    /\ ui = [pc |-> "idle", call |-> 0]
    /\ scan_runs = 0
    /\ scan_beeps = 0
    /\ scan_uses = 0
    /\ submitted = NoSubmit
    /\ mails = [c \in Calls |-> 0]
    /\ page2 = NoReceive

Init ==
    \E stock \in [SpringNos -> {0, InitQty}] :
        /\ Started(stock)
        /\ fn = NoFn

CallStep(c) ==
    \/ receive_stock_set(c)
    \/ use_stock_set(c)
    \/ receive_stock_add(c)
    \/ use_stock_add(c)
    \/ get_conn_fails(c)

Next ==
    \/ \E c \in Calls : InvokeReceive(c)
    \/ \E c \in Calls : InvokeUse(c)
    \/ \E c \in Calls : CallStep(c)

\* Sessions calling receive_stock and use_stock concurrently.
Spec == Init /\ [][Next]_vars

NextUI ==
    \/ scan_event
    \/ page1_refresh
    \/ page1_new_scan
    \/ page1_submit
    \/ page1_use_returned
    \/ page1_use_raised
    \/ \E c \in Calls : use_stock_set(c)
    \/ \E c \in Calls : use_stock_add(c)
    \/ \E c \in Calls : get_conn_fails(c)

\* One operator session on page 1, its scanner and its use_stock calls.
SpecUI == Init /\ [][NextUI]_vars

NextAdmin ==
    \/ page2_submit
    \/ page2_receive_returned
    \/ page2_receive_raised
    \/ \E c \in Calls : receive_stock_set(c)
    \/ \E c \in Calls : receive_stock_add(c)
    \/ \E c \in Calls : get_conn_fails(c)

\* One administrator session on page 2 and its receive_stock calls.
SpecAdmin == Init /\ [][NextAdmin]_vars

\* ------------------------------------------------- the functions, called
\* Strings of at most n characters of the alphabet.
Strings(alphabet, n) == UNION {[1..k -> alphabet] : k \in 0..n}

\* A function about to be called with an argument.
FnCall(op, arg) ==
    [op |-> op, arg |-> arg, done |-> FALSE, raised |-> FALSE, out |-> <<>>]

\* Arguments of normalize_order_no: None, short strings of blanks, tabs,
\* a letter and a digit, and an order number as it is typed.
OrderArgs ==
    {NULL, <<" ", " ", "0", "0", "5", "-", "2", "6", "r", "0", "1", " ">>}
    \cup Strings({" ", "\t", "r", "0"}, MaxLen)

\* Values and keys of the fields of a structured scanner result.
ScanValues == {<<>>, <<" ", "A">>, <<"B">>}
ScanDictKeys == {ScanKeySeq[i] : i \in 1..Len(ScanKeySeq)} \cup {<<"i", "d">>}

\* Structured scanner results of at most MaxFields fields (distinct keys).
ScanDicts ==
    {ScanDict(items) :
        items \in {d \in UNION {[1..n -> [k : ScanDictKeys, v : ScanValues]] :
                                   n \in 0..MaxFields} :
                      \A i, j \in 1..Len(d) : i # j => d[i].k # d[j].k}}

\* Arguments of make_label_pdf: a spring number and a number of copies, also
\* below 1.
LabelArgs ==
    [spring_no : SpringNos, count : (0 - 1)..MaxCopies]

\* One call of one of the functions.
InitFn ==
    /\ Started([p \in SpringNos |-> 0])
    /\ \/ fn \in {FnCall("normalize_order_no", s) : s \in OrderArgs}
       \/ fn \in {FnCall("normalize_scan_value", r) : r \in ScanResults}
       \/ fn \in {FnCall("normalize_scan_value", r) : r \in ScanDicts}
       \/ fn \in {FnCall("make_label_pdf", a) : a \in LabelArgs}

\* The function returned out.
returns(out) == fn' = [fn EXCEPT !.done = TRUE, !.out = out]

call_normalize_order_no ==
    /\ fn.op = "normalize_order_no" /\ ~fn.done
    /\ returns(normalize_order_no(fn.arg))
    /\ UNCHANGED <<ledger_vars, page1_vars, page2>>

call_normalize_scan_value ==
    /\ fn.op = "normalize_scan_value" /\ ~fn.done
    /\ returns(normalize_scan_value(fn.arg))
    /\ UNCHANGED <<ledger_vars, page1_vars, page2>>

call_make_label_pdf ==
    /\ fn.op = "make_label_pdf" /\ ~fn.done
    /\ returns(make_label_pdf(fn.arg.spring_no, fn.arg.count))
    /\ UNCHANGED <<ledger_vars, page1_vars, page2>>

NextFn ==
    \/ call_normalize_order_no
    \/ call_normalize_scan_value
    \/ call_make_label_pdf

\* Single calls of the normalizers and of the label generator.
SpecFn == InitFn /\ [][NextFn]_vars

\* ------------------------------------------------------- ledger quantities
RECURSIVE SumTx(_, _, _)
\* Sum of qty over the first n transactions rows of the given type and spring.
SumTx(tx_type, spring_no, n) ==
    IF n = 0 THEN 0
    ELSE SumTx(tx_type, spring_no, n - 1)
         + (IF /\ transactions[n].type = tx_type
               /\ transactions[n].spring_no = spring_no
            THEN transactions[n].qty ELSE 0)

Received(p) == SumTx("RECEIVE", p, Len(transactions))
Used(p) == SumTx("USE", p, Len(transactions))

\* The stored balance of a spring; a spring without a row has none, read as 0.
Balance(p) == current_of(get_stock_row(p))

RECURSIVE SumCalls(_, _, _, _)
\* Sum of qty over the calls 1..n of the given type and spring that ended in pc.
SumCalls(tx_type, spring_no, pcs, n) ==
    IF n = 0 THEN 0
    ELSE SumCalls(tx_type, spring_no, pcs, n - 1)
         + (IF /\ call[n].tx_type = tx_type
               /\ call[n].spring_no = spring_no
               /\ call[n].pc \in pcs
            THEN call[n].qty ELSE 0)

\* Stock of a spring when this run of the app started.
RECURSIVE InitialStock(_, _)
InitialStock(p, n) ==
    IF n = 0 THEN 0
    ELSE InitialStock(p, n - 1)
         + (IF tx_by[n] = 0 /\ transactions[n].spring_no = p
            THEN transactions[n].qty ELSE 0)

Initial(p) == InitialStock(p, Len(transactions))

\* Position of call c in the order of committed balance writes (0: none).
RECURSIVE WritePos(_, _)
WritePos(c, n) ==
    IF n = 0 THEN 0
    ELSE IF write_by[n] = c THEN n ELSE WritePos(c, n - 1)

Rejected(r) == r.pc = "raised" /\ r.err = "ValueError"
StoreFailed(r) == r.pc = "raised" /\ r.err = "OperationalError"
\* The call made no database access between two of its own.
Settled(r) == r.pc \in {"idle", "returned"} \/ Rejected(r)

\* ----------------------------------------------------------------- claims

\* C1 (ledger consistency under concurrency): whenever every call made so far
\* has returned or was rejected, i.e. no call is between its steps and none
\* was cut short, the stored qty_on_hand of every spring equals the sum of its
\* RECEIVE quantities minus the sum of its USE quantities; two concurrent
\* calls on one spring lose no update.
C1_LedgerConsistency ==
    (\A c \in Calls : Settled(call[c]))
        => \A p \in SpringNos : Balance(p) = Received(p) - Used(p)

\* C2 (concurrency safety of consumption): for a spring with balance B on
\* which only use_stock calls are made, whose quantities sum to more than B,
\* the quantities of the calls that succeeded sum to at most B, and once all
\* of them ended the balance is B minus the quantities of the succeeded calls.
C2_ConcurrentConsume ==
    \A p \in SpringNos :
        (/\ \A c \in Calls : call[c].spring_no = p =>
                /\ call[c].tx_type = "USE"
                /\ ~StoreFailed(call[c])
         /\ SumCalls("USE", p, {"set_stock", "add_transaction", "returned", "raised"},
                     NCalls) > Initial(p))
        => /\ SumCalls("USE", p, {"returned"}, NCalls) <= Initial(p)
           /\ (\A c \in Calls : Settled(call[c]))
                 => Balance(p) = Initial(p) - SumCalls("USE", p, {"returned"}, NCalls)

\* C3 (non-negative balance): in every state, whatever the interleaving of
\* receive_stock and use_stock calls, every stored qty_on_hand is >= 0.
C3_NonNegativeBalance ==
    \A p \in DOMAIN springs : springs[p] >= 0

\* C3 witness: two overlapping use_stock calls on one spring both wrote the
\* balance and returned.
C3_Witness ==
    \E c, d \in Calls :
        /\ c # d
        /\ call[c].tx_type = "USE" /\ call[d].tx_type = "USE"
        /\ call[c].spring_no = call[d].spring_no
        /\ call[c].ovl /\ call[d].ovl
        /\ call[c].pc = "returned" /\ call[d].pc = "returned"

\* C4 (all-or-nothing adjust): a call that failed because the store was
\* unreachable has no partial effect: it did not change the balance.
C4_AllOrNothing ==
    \A c \in Calls : StoreFailed(call[c]) => WritePos(c, Len(write_by)) = 0

\* C5 (atomicity under rejection): a use_stock call whose qty is greater than
\* the balance it finds (0 for a spring without a row) ends with the
\* insufficient-stock error, and the springs table and the transactions log
\* are as before the call.
C5_RejectionAtomic ==
    [][\A c \in Calls :
          (/\ call[c].pc = "idle"
           /\ call'[c].pc # "idle"
           /\ call'[c].tx_type = "USE"
           /\ ~StoreFailed(call'[c])
           /\ call'[c].qty > Balance(call'[c].spring_no))
          => /\ Rejected(call'[c])
             /\ springs' = springs
             /\ transactions' = transactions]_vars

\* C5 witness: a use_stock call was rejected on a spring that has stock, and
\* another spring has no row at all.
C5_Witness ==
    \E c \in Calls :
        /\ Rejected(call[c])
        /\ call[c].current >= 1
        /\ call[c].qty > call[c].current
        /\ \E p \in SpringNos : p \notin DOMAIN springs

\* C6 (conservation, sequential): as long as the calls on a spring did not
\* overlap and each of them returned or was rejected, the balance of the
\* spring is its initial stock plus the received quantities minus the
\* successfully consumed quantities, and it is >= 0.
C6_Conservation ==
    \A p \in SpringNos :
        (\A c \in Calls : call[c].spring_no = p =>
            /\ ~call[c].ovl
            /\ Settled(call[c]))
        => /\ Balance(p) = Initial(p)
                            + SumCalls("RECEIVE", p, {"returned"}, NCalls)
                            - SumCalls("USE", p, {"returned"}, NCalls)
           /\ Balance(p) >= 0

\* C6 witness: on one spring a receive_stock call returned and a later
\* use_stock call asking for more than the stock was rejected, none of them
\* overlapping: the balance stays what the receipt made it.
C6_Witness ==
    \E c, d \in Calls :
        /\ c < d
        /\ call[c].spring_no = call[d].spring_no
        /\ call[c].tx_type = "RECEIVE" /\ call[c].pc = "returned"
        /\ call[d].tx_type = "USE" /\ Rejected(call[d])
        /\ ~call[c].ovl /\ ~call[d].ovl
        /\ call[d].current = call[c].new_qty
        /\ Balance(call[c].spring_no) = call[c].new_qty

\* C7 (per-part ordering): the movement records of one spring appear in the
\* log in the order in which their calls committed the balance write.
C7_LogOrderIsWriteOrder ==
    \A i, j \in 1..Len(transactions) :
        (/\ i < j
         /\ tx_by[i] # 0
         /\ tx_by[j] # 0
         /\ transactions[i].spring_no = transactions[j].spring_no)
        => WritePos(tx_by[i], Len(write_by)) < WritePos(tx_by[j], Len(write_by))

\* The guard of the session: EMPTY, or ARMED(v) with spring_no = last_scanned = v.
Armed(state, v) == v # <<>> /\ state.spring_no = v /\ state.last_scanned = v
Empty(state) == state.spring_no = <<>> /\ state.last_scanned = <<>>

\* C8 (dedup guard notifications): a script run that handles the scanner's
\* result beeps exactly when the scanned text is non-empty and differs from
\* last_scanned; a non-empty scanned text leaves the guard armed with it, an
\* empty one leaves the guard as it was.
C8_DedupNotifications ==
    [][(page1_refresh \/ page1_submit) =>
          LET qr_text == normalize_scan_value(qr_raw)
          IN  /\ scan_beeps' = scan_beeps
                 + (IF qr_text # <<>> /\ qr_text # session.last_scanned
                    THEN 1 ELSE 0)
              /\ qr_text # <<>> => Armed(session', qr_text)
              /\ qr_text = <<>> =>
                    /\ session'.spring_no = session.spring_no
                    /\ session'.last_scanned = session.last_scanned]_vars

\* C8 witness: the scanner reported " A\n" once, two or more script runs
\* handled it, the guard is armed with "A" and there was exactly one beep.
C8_Witness ==
    /\ qr_raw = ScanStr(<<" ", "A", "\n">>)
    /\ scan_runs = 2
    /\ scan_beeps = 1
    /\ scan_uses = 0
    /\ Armed(session, <<"A">>)

C10_OneScanOneConsumption ==
    /\ scan_beeps <= 1
    /\ scan_uses <= 1

\* The rules a consume submission violates: the part identifier is empty, the
\* initials are not exactly two uppercase letters, the order reference is not
\* ddd-ddL followed by digits, the quantity is below 1.
Violated(spring_no, initials, order_no, qty) ==
    (IF spring_no = <<>> THEN {"veernummer"} ELSE {})
    \cup (IF Len(initials) = 2 /\ \A i \in 1..2 : initials[i] \in Upper
          THEN {} ELSE {"initialen"})
    \cup (IF order_shape(order_no) THEN {} ELSE {"ordernummer"})
    \cup (IF qty >= 1 THEN {} ELSE {"aantal"})

\* C11 (consume validation): a consume submission that violates any of the
\* rules displays one error for every violated rule, not only the first, and
\* mutates nothing: use_stock is not called, no balance changes, no movement
\* is appended, no notification is sent.
C11_ValidationListsEveryRule ==
    [][page1_submit =>
          LET s == submitted'
              violated == Violated(strip(session'.spring_no),
                                   normalize_initials(s.initials_raw),
                                   normalize_order_no(s.order_raw), s.qty)
          IN  violated # {} =>
                 /\ {s.errors[i] : i \in 1..Len(s.errors)} = violated
                 /\ Len(s.errors) = Cardinality(violated)
                 /\ UNCHANGED <<springs, transactions, call, tx_by, write_by,
                                mails>>]_vars

\* C11 witness: a submission without a scanned spring, with a single initial
\* and a malformed order number displayed three errors, and no call was made.
C11_Witness ==
    /\ submitted.set
    /\ submitted.errors = <<"veernummer", "initialen", "ordernummer">>
    /\ \A c \in Calls : call[c].pc = "idle"
    /\ ui.pc = "idle"

\* C12 (notification exactly once after commit): send_email is called once
\* for every use_stock call that returned, as soon as the handler resumed, and
\* never for a submission that failed validation or a call that raised; the
\* outcome of send_email, also a failure, is kept in last_use_success, and the
\* balance and the movement record of the consumption stay as committed.
C12_NotifyOnceAfterCommit ==
    /\ [](\A c \in Calls :
            /\ mails[c] <= 1
            /\ mails[c] = 1 =>
                  /\ call[c].pc = "returned"
                  /\ WritePos(c, Len(write_by)) > 0
                  /\ \E i \in 1..Len(tx_by) :
                        /\ tx_by[i] = c
                        /\ transactions[i].type = "USE"
                        /\ transactions[i].qty = call[c].qty
            /\ (call[c].pc = "returned" /\ ~(ui.pc = "use_stock" /\ ui.call = c))
                  => mails[c] = 1)
    /\ [][/\ page1_use_returned =>
                 /\ mails'[ui.call] = mails[ui.call] + 1
                 /\ session'.last_use_success.set
                 /\ UNCHANGED <<springs, transactions>>
          /\ (page1_submit \/ page1_use_raised \/ page1_refresh) =>
                 mails' = mails]_vars

\* C12 witness: a consumption committed, its notification failed, and the
\* balance and the movement record of the consumption are in place.
C12_Witness ==
    \E c \in Calls :
        /\ mails[c] = 1
        /\ ui.pc = "idle"
        /\ session.last_use_success.set
        /\ ~session.last_use_success.email_ok
        /\ session.last_use_success.after = Balance(call[c].spring_no)
        /\ \E i \in 1..Len(tx_by) : tx_by[i] = c

\* C13 (movement record well-formedness): in every state every row of the
\* transactions log has qty > 0; every USE row carries initials of exactly
\* two uppercase letters and an order number of the form ddd-ddL followed by
\* digits; every RECEIVE row carries neither initials nor an order number.
C13_MovementWellFormed ==
    \A i \in 1..Len(transactions) :
        LET m == transactions[i]
        IN  /\ m.qty > 0
            /\ m.type \in {"RECEIVE", "USE"}
            /\ m.type = "USE" =>
                  /\ Len(m.initials) = 2
                  /\ m.initials[1] \in Upper /\ m.initials[2] \in Upper
                  /\ order_shape(m.order_no)
            /\ m.type = "RECEIVE" =>
                  /\ m.initials = NULL
                  /\ m.order_no = NULL

\* C13 witness: the log holds a RECEIVE row and a USE row written by calls of
\* this run, the USE row with what the forms' "p.v." and " 005-26r01 " became.
C13_Witness ==
    \E i, j \in 1..Len(transactions) :
        /\ tx_by[i] # 0 /\ tx_by[j] # 0
        /\ transactions[i].type = "RECEIVE"
        /\ transactions[j].type = "USE"
        /\ transactions[j].initials = <<"P", "V">>
        /\ transactions[j].order_no = <<"0", "0", "5", "-", "2", "6", "R", "0", "1">>

\* C14 (implicit creation with default zero): on a spring that had no row,
\* the receive_stock call that writes first found balance 0 and created the
\* row with its qty, returning (0, qty); and when only receive_stock calls
\* were made on the spring and all returned, concurrently or not, every one
\* of them counts: the balance is the sum of their quantities.
C14_ImplicitCreation ==
    \A p \in SpringNos :
        (/\ Initial(p) = 0
         /\ \A c \in Calls : call[c].spring_no = p =>
                /\ call[c].tx_type = "RECEIVE"
                /\ call[c].pc = "returned")
        => /\ \A c \in Calls :
                 (call[c].spring_no = p /\ write_by # <<>> /\
                  \A d \in Calls :
                      (call[d].spring_no = p) =>
                          WritePos(c, Len(write_by)) <= WritePos(d, Len(write_by)))
                 => /\ call[c].current = 0
                    /\ call[c].new_qty = call[c].qty
           /\ Balance(p) = SumCalls("RECEIVE", p, {"returned"}, NCalls)

\* C18 (returned before/after are the real balances): every call that
\* returned returns (current, new_qty) with new_qty = current + qty for a
\* receipt and current - qty for a consumption, where current is the stored
\* balance of the spring immediately before the call's balance write and
\* new_qty the stored balance immediately after it, also when other calls on
\* the spring run concurrently.
C18_ReturnedBalancesAreReal ==
    \A c \in Calls :
        call[c].pc = "returned" =>
            /\ call[c].new_qty = call[c].current
                   + (IF call[c].tx_type = "RECEIVE" THEN call[c].qty
                      ELSE 0 - call[c].qty)
            /\ call[c].current = call[c].pre

\* C20 (frame condition per part): a step of a receive_stock or use_stock
\* call on spring p changes no balance row of another spring and appends no
\* movement record of another spring; the step that only reads changes
\* nothing; and a call that failed has left the whole ledger unchanged: it
\* wrote no balance and appended no movement record.
C20_FramePerPart ==
    /\ [](\A c \in Calls :
            call[c].pc = "raised" =>
                /\ WritePos(c, Len(write_by)) = 0
                /\ \A i \in 1..Len(tx_by) : tx_by[i] # c)
    /\ [][\A c \in Calls :
            (call'[c].pc # call[c].pc) =>
                LET p == call'[c].spring_no
                IN  /\ \A q \in SpringNos \ {p} :
                          get_stock_row(q)' = get_stock_row(q)
                    /\ Len(transactions') >= Len(transactions)
                    /\ SubSeq(transactions', 1, Len(transactions)) = transactions
                    /\ \A i \in (Len(transactions) + 1)..Len(transactions') :
                          transactions'[i].spring_no = p
                    /\ call[c].pc = "idle" =>
                          UNCHANGED <<springs, transactions>>]_vars

\* C19 (receive pipeline): a receive submission whose part identifier is
\* empty after trimming, or whose qty is below 1, is rejected and mutates
\* nothing; labels are generated only in the step that follows the return of
\* receive_stock, when the balance and the movement record are committed; and
\* that step, also when make_label_pdf raises, leaves both in place.
C19_ReceivePipeline ==
    [][/\ page2_submit =>
            ((strip(page2'.spring_no) = <<>> \/ page2'.qty_received < 1)
                => /\ page2'.error
                   /\ UNCHANGED <<springs, transactions, call, tx_by, write_by>>)
       /\ (page2'.pdf # page2.pdf \/ page2'.pdf_set # page2.pdf_set
             \/ (page2'.label_raised /\ ~page2.label_raised))
            => page2_receive_returned
       /\ page2_receive_returned =>
            /\ WritePos(ui.call, Len(write_by)) > 0
            /\ \E i \in 1..Len(tx_by) :
                  /\ tx_by[i] = ui.call
                  /\ transactions[i].type = "RECEIVE"
                  /\ transactions[i].spring_no = strip(page2.spring_no)
                  /\ transactions[i].qty = page2.qty_received
            /\ UNCHANGED <<springs, transactions>>]_vars

\* C19 witness: the receipt of " A" was booked, make_label_pdf raised, and
\* the balance and the RECEIVE record of the receipt are in place.
C19_Witness ==
    /\ page2.label_raised
    /\ ui.pc = "idle"
    /\ page2.spring_no = <<" ", "A">>
    /\ call[ui.call].spring_no = <<"A">>
    /\ call[ui.call].pc = "returned"
    /\ Balance(<<"A">>) = call[ui.call].new_qty
    /\ \E i \in 1..Len(tx_by) : tx_by[i] = ui.call /\ transactions[i].type = "RECEIVE"

\* C15 (label page count): make_label_pdf(spring_no, count) returns, for
\* every count >= 1, a document of exactly count pages, each encoding
\* spring_no verbatim; a call with count < 1 is rejected with an error and
\* returns no document.
C15_LabelPages ==
    (fn.op = "make_label_pdf" /\ fn.done) =>
        IF fn.arg.count >= 1
        THEN /\ ~fn.raised
             /\ Len(fn.out) = fn.arg.count
             /\ \A i \in 1..Len(fn.out) :
                   /\ fn.out[i].qr = fn.arg.spring_no
                   /\ fn.out[i].text = fn.arg.spring_no
        ELSE fn.raised

\* A character that is not whitespace of any kind.
not_whitespace(ch) == ch \notin Whitespace

\* C16 (order-reference normalization): normalize_order_no never fails, also
\* for None and the empty string, and returns its argument with every
\* whitespace character removed, leading, trailing and interior, of every
\* kind, and the rest upper-cased; normalizing the result again changes
\* nothing.
C16_OrderNormalization ==
    (fn.op = "normalize_order_no" /\ fn.done) =>
        /\ ~fn.raised
        /\ fn.out = upper(SelectSeq(or_empty(fn.arg), not_whitespace))
        /\ normalize_order_no(fn.out) = fn.out

\* C17 (scan payload extraction): normalize_scan_value returns, for a str,
\* the stripped str; for a dict, the stripped value of the first of the keys
\* text, data, raw, result, value that is present, and the stripped str() of
\* the dict when none of them is present; the result is always stripped.
C17_ScanExtraction ==
    (fn.op = "normalize_scan_value" /\ fn.done) =>
        LET r == fn.arg
        IN  /\ strip(fn.out) = fn.out
            /\ r.kind = "str" => fn.out = strip(r.val)
            /\ r.kind = "dict" =>
                  LET present == {i \in 1..Len(ScanKeySeq) :
                                     \E j \in 1..Len(r.val) :
                                         r.val[j].k = ScanKeySeq[i]}
                  IN  IF present # {}
                      THEN fn.out = strip(dict_get(r.val,
                                        ScanKeySeq[CHOOSE i \in present :
                                                      \A j \in present : i <= j]))
                      ELSE fn.out = strip(str_dict(r.val))

====
